---- MODULE Spec2Model ----
(***************************************************************************)
(* Hospital management dashboard (src/app.py): one browser session driving *)
(* the Streamlit script.  Every user interaction starts a run of main();   *)
(* a handler that ends in st.rerun() is followed by a second run that      *)
(* renders the current page again.  The patient store, the audit log and   *)
(* the cipher key are persisted outside the session.                       *)
(*                                                                         *)
(* database.py, auth.py and crypto_utils.py are imported by app.py but are *)
(* not part of the sources at hand; the operators that stand for them      *)
(* follow sections 4.1-4.6 of the specification.                           *)
(***************************************************************************)
EXTENDS Integers, Sequences, FiniteSets, TLC

VARIABLES
    user,         \* st.session_state['user']
    page,         \* st.session_state['page']
    view_mode,    \* the "View Mode (Admin Only)" radio of the View tab
    selected_id,  \* the patient selectbox of the page shown (0: none shown)
    patients,     \* patient table, ordered by patient_id
    logs,         \* audit log table, in insertion order
    cipherKey,    \* persisted symmetric key (0: not created yet)
    screen,       \* what the last run rendered
    decrypted,    \* the "Decrypted Data" block of the last run (<<>>: none)
    pc,           \* position inside the Add Patient handler
    sealed        \* history: raw <<name, contact>> of each patient at its
                  \* most recent add_patient / anonymize_all_patients

vars == <<user, page, view_mode, selected_id, patients, logs, cipherKey,
          screen, decrypted, pc, sealed>>

----------------------------------------------------------------------------
(* Bounds of the model *)

MaxPatients == 2
MaxLogs == 7

(* Input alphabets of the forms *)

Form(name, contact, diagnosis) ==
    [name |-> name, contact |-> contact, diagnosis |-> diagnosis]

ValidForms ==
    { Form("Jane", <<"5", "5", "5", "1", "2", "3", "4">>, "flu"),
      Form("John", <<"1", "2">>, "flu") }

IncompleteForms ==
    { Form("", <<"1", "2">>, "flu"),
      Form("Jane", <<>>, "flu"),
      Form("Jane", <<"1", "2">>, "") }

Keys == {1}

----------------------------------------------------------------------------
(* Credential store and authenticator *)

NoUser == [username |-> "", role |-> "none"]

Credentials ==
    { [username |-> "admin",       password |-> "admin123", role |-> "admin"],
      [username |-> "dr_bob",      password |-> "doc123",   role |-> "doctor"],
      [username |-> "alice_recep", password |-> "rec123",   role |-> "receptionist"] }

\* Submissions of the login form: the three demo accounts, an empty
\* username, an empty password, a wrong password and an unknown user
LoginAttempts ==
    { <<"admin", "admin123">>, <<"dr_bob", "doc123">>,
      <<"alice_recep", "rec123">>, <<"", "admin123">>, <<"admin", "">>,
      <<"admin", "doc123">>, <<"mallory", "admin123">> }

authenticate_user(username, password) ==
    LET hit == {c \in Credentials :
                   c.username = username /\ c.password = password}
    IN  IF hit = {} THEN NoUser
        ELSE LET c == CHOOSE x \in hit : TRUE
             IN  [username |-> c.username, role |-> c.role]

check_role(u, allowed) == u # NoUser /\ u.role \in allowed

----------------------------------------------------------------------------
(* Field masker and cipher *)

PreservedSuffix == 4

mask_name(id) == "ANON_" \o ToString(id)

mask_contact(contact) ==
    IF Len(contact) >= PreservedSuffix
    THEN [i \in 1..Len(contact) |->
             IF i <= Len(contact) - PreservedSuffix THEN "X" ELSE contact[i]]
    ELSE [i \in 1..Len(contact) |-> "X"]

get_cipher(k) == IF cipherKey = 0 THEN k ELSE cipherKey

encrypt(key, plaintext) == [key |-> key, data |-> plaintext]

CanDecrypt(key, ciphertext) == ciphertext.key = key

decrypt_field(key, ciphertext) == ciphertext.data

----------------------------------------------------------------------------
(* Audit log *)

Entry(u, action) ==
    [username |-> u.username, role |-> u.role, action |-> action]

log_user_action(lg, u, action) == Append(lg, Entry(u, action))

----------------------------------------------------------------------------
(* Patient repository.  Rows are kept in patient_id order and ids are      *)
(* assigned 1, 2, ...; date_added is written once by add_patient and read  *)
(* by no handler, so it is left out.  Each call commits on its own.        *)

add_patient(pts, name, contact, diagnosis, anon_name, anon_contact, enc_name, enc_contact) ==
    Append(pts, [patient_id         |-> Len(pts) + 1,
                 name               |-> name,
                 contact            |-> contact,
                 diagnosis          |-> diagnosis,
                 anonymized_name    |-> anon_name,
                 anonymized_contact |-> anon_contact,
                 encrypted_name     |-> enc_name,
                 encrypted_contact  |-> enc_contact])

update_patient(pts, id, name, contact, diagnosis, anon_name, anon_contact) ==
    [i \in 1..Len(pts) |->
        IF pts[i].patient_id = id
        THEN [pts[i] EXCEPT !.name = name,
                            !.contact = contact,
                            !.diagnosis = diagnosis,
                            !.anonymized_name = anon_name,
                            !.anonymized_contact = anon_contact]
        ELSE pts[i]]

anonymize_all_patients(pts, key) ==
    [i \in 1..Len(pts) |->
        [pts[i] EXCEPT !.anonymized_name = mask_name(pts[i].patient_id),
                       !.anonymized_contact = mask_contact(pts[i].contact),
                       !.encrypted_name = encrypt(key, pts[i].name),
                       !.encrypted_contact = encrypt(key, pts[i].contact)]]

RawOf(pts) == [i \in 1..Len(pts) |-> <<pts[i].name, pts[i].contact>>]

----------------------------------------------------------------------------
(* What one run of a page function renders and logs *)

Pages(u) ==
    IF u.role = "admin"
    THEN {"Dashboard", "Patients", "Anonymization", "Audit Logs"}
    ELSE {"Dashboard", "Patients"}

\* Variant: the role test of the Add and Update tabs lets every role through
CanEdit_AnyRole(u) == TRUE

CanEdit(u) == u.role \in {"admin", "receptionist"}

\* Tab 1 of patients_page
ViewTabLog(u, vm, pts) ==
    IF pts = <<>> THEN <<>>
    ELSE IF u.role = "admin"
         THEN IF vm = "Raw Data" THEN <<Entry(u, "VIEW_RAW_DATA")>> ELSE <<>>
    ELSE IF u.role = "doctor" THEN <<Entry(u, "VIEW_ANONYMIZED_DATA")>>
    ELSE <<>>

\* Variant: the receptionist branch is missing, every non-admin gets the
\* anonymized table
ViewTabScreen_NoReceptionistBranch(u, vm, pts) ==
    IF pts = <<>> THEN {"no_records"}
    ELSE IF u.role = "admin"
         THEN IF vm = "Raw Data" THEN {"raw_table"} ELSE {"anon_table"}
    ELSE {"anon_table"}

ViewTabScreen(u, vm, pts) ==
    IF pts = <<>> THEN {"no_records"}
    ELSE IF u.role = "admin"
         THEN IF vm = "Raw Data" THEN {"raw_table"} ELSE {"anon_table"}
    ELSE IF u.role = "doctor" THEN {"anon_table"}
    ELSE {"receptionist_cannot_view"}

\* Tab 2 of patients_page, no submission
AddTabScreen(u) ==
    IF CanEdit(u) THEN {"add_form"} ELSE {"doctors_cannot_add"}

\* Tab 3 of patients_page, no submission
UpdateTabScreen(u, pts) ==
    IF CanEdit(u)
    THEN IF pts # <<>> THEN {"update_form"} ELSE {"no_patients_to_update"}
    ELSE {"doctors_cannot_update"}

PageLog(u, pg, vm, pts, lg) ==
    CASE pg = "Dashboard" -> <<Entry(u, "VIEW_DASHBOARD")>>
      [] pg = "Patients" -> ViewTabLog(u, vm, pts)
      [] pg = "Anonymization" -> <<>>
      [] pg = "Audit Logs" ->
            IF check_role(u, {"admin"}) /\ lg # <<>>
            THEN <<Entry(u, "VIEW_AUDIT_LOG")>> ELSE <<>>
      [] OTHER -> <<>>

PageScreen(u, pg, vm, pts, lg) ==
    CASE pg = "Dashboard" -> {"dashboard"}
      [] pg = "Patients" ->
            ViewTabScreen(u, vm, pts) \cup AddTabScreen(u)
                \cup UpdateTabScreen(u, pts)
      [] pg = "Anonymization" ->
            IF ~check_role(u, {"admin"}) THEN {"access_denied"}
            ELSE IF pts # <<>> THEN {"anonymize_button", "decrypt_form"}
            ELSE {"anonymize_button"}
      [] pg = "Audit Logs" ->
            IF ~check_role(u, {"admin"}) THEN {"access_denied"}
            ELSE IF lg # <<>> THEN {"audit_log"} ELSE {"no_logs"}
      [] OTHER -> {"login_form"}

\* The selectbox of the page: kept while it is still shown, first option
\* when it appears, gone with the page.
HasSelectbox(u, pg, pts) ==
    /\ pts # <<>>
    /\ \/ pg = "Patients" /\ CanEdit(u)
       \/ pg = "Anonymization" /\ check_role(u, {"admin"})

SelectedAfter(u, pg, pts, sel) ==
    IF HasSelectbox(u, pg, pts)
    THEN IF sel \in 1..Len(pts) THEN sel ELSE 1
    ELSE 0

\* Variant: only the name is required
FormComplete_NameOnly(name, contact, diagnosis) == name # ""

\* Add tab: "if name and contact and diagnosis"
FormComplete(name, contact, diagnosis) ==
    name # "" /\ contact # <<>> /\ diagnosis # ""

----------------------------------------------------------------------------
Init ==
    /\ user = NoUser
    /\ page = "Login"
    /\ view_mode = "Anonymized"
    /\ selected_id = 0
    /\ patients = <<>>
    /\ logs = <<>>
    /\ cipherKey = 0
    /\ screen = {"login_form"}
    /\ decrypted = <<>>
    /\ pc = "idle"
    /\ sealed = <<>>

\* Variant: a rejected login is written to the audit log
LoginSubmit_LogsFailure(username, password) ==
    /\ pc = "idle"
    /\ user = NoUser
    /\ IF username # "" /\ password # ""
       THEN LET u == authenticate_user(username, password)
            IN  IF u # NoUser
                THEN /\ user' = u
                     /\ page' = "Dashboard"
                     /\ logs' = log_user_action(logs, u, "LOGIN")
                                  \o PageLog(u, "Dashboard", view_mode, patients,
                                             log_user_action(logs, u, "LOGIN"))
                     /\ Len(logs') <= MaxLogs
                     /\ screen' = PageScreen(u, "Dashboard", view_mode,
                                             patients, logs')
                ELSE /\ screen' = {"login_form", "invalid_login"}
                     /\ logs' = log_user_action(logs, NoUser, "LOGIN_FAILED")
                     /\ Len(logs') <= MaxLogs
                     /\ UNCHANGED <<user, page>>
       ELSE /\ screen' = {"login_form", "enter_both"}
            /\ UNCHANGED <<user, page, logs>>
    /\ UNCHANGED <<view_mode, selected_id, patients, cipherKey, decrypted,
                   pc, sealed>>

\* login_page: the form is submitted
LoginSubmit(username, password) ==
    /\ pc = "idle"
    /\ user = NoUser
    /\ IF username # "" /\ password # ""
       THEN LET u == authenticate_user(username, password)
            IN  IF u # NoUser
                THEN /\ user' = u
                     /\ page' = "Dashboard"
                     /\ logs' = log_user_action(logs, u, "LOGIN")
                                  \o PageLog(u, "Dashboard", view_mode, patients,
                                             log_user_action(logs, u, "LOGIN"))
                     /\ Len(logs') <= MaxLogs
                     /\ screen' = PageScreen(u, "Dashboard", view_mode,
                                             patients, logs')
                ELSE /\ screen' = {"login_form", "invalid_login"}
                     /\ UNCHANGED <<user, page, logs>>
       ELSE /\ screen' = {"login_form", "enter_both"}
            /\ UNCHANGED <<user, page, logs>>
    /\ UNCHANGED <<view_mode, selected_id, patients, cipherKey, decrypted,
                   pc, sealed>>

\* main: a sidebar page button is clicked
Navigate(p) ==
    /\ pc = "idle"
    /\ user # NoUser
    /\ p \in Pages(user)
    /\ page' = p
    /\ view_mode' = IF p = page THEN view_mode ELSE "Anonymized"
    /\ selected_id' = SelectedAfter(user, p, patients,
                                    IF p = page THEN selected_id ELSE 0)
    /\ logs' = logs \o PageLog(user, p, view_mode', patients, logs)
    /\ Len(logs') <= MaxLogs
    /\ screen' = PageScreen(user, p, view_mode', patients, logs)
    /\ decrypted' = <<>>
    /\ UNCHANGED <<user, patients, cipherKey, pc, sealed>>

\* Variant: logout clears the user but leaves the page where it was
Logout_KeepsPage ==
    /\ pc = "idle"
    /\ user # NoUser
    /\ logs' = log_user_action(logs, user, "LOGOUT")
    /\ Len(logs') <= MaxLogs
    /\ user' = NoUser
    /\ view_mode' = "Anonymized"
    /\ selected_id' = 0
    /\ screen' = {"login_form"}
    /\ decrypted' = <<>>
    /\ UNCHANGED <<page, patients, cipherKey, pc, sealed>>

\* main: the Logout button is clicked
Logout ==
    /\ pc = "idle"
    /\ user # NoUser
    /\ logs' = log_user_action(logs, user, "LOGOUT")
    /\ Len(logs') <= MaxLogs
    /\ user' = NoUser
    /\ page' = "Login"
    /\ view_mode' = "Anonymized"
    /\ selected_id' = 0
    /\ screen' = {"login_form"}
    /\ decrypted' = <<>>
    /\ UNCHANGED <<patients, cipherKey, pc, sealed>>

\* patients_page, View tab: the admin's radio is switched
SetViewMode(vm) ==
    /\ pc = "idle"
    /\ user # NoUser
    /\ page = "Patients"
    /\ user.role = "admin"
    /\ patients # <<>>
    /\ vm # view_mode
    /\ view_mode' = vm
    /\ logs' = logs \o PageLog(user, page, vm, patients, logs)
    /\ Len(logs') <= MaxLogs
    /\ screen' = PageScreen(user, page, vm, patients, logs)
    /\ UNCHANGED <<user, page, selected_id, patients, cipherKey, decrypted,
                   pc, sealed>>

\* patients_page / anonymization_page: another patient is picked in the
\* selectbox, which runs the script again
SelectPatient(id) ==
    /\ pc = "idle"
    /\ user # NoUser
    /\ HasSelectbox(user, page, patients)
    /\ id \in 1..Len(patients)
    /\ id # selected_id
    /\ selected_id' = id
    /\ logs' = logs \o PageLog(user, page, view_mode, patients, logs)
    /\ Len(logs') <= MaxLogs
    /\ screen' = PageScreen(user, page, view_mode, patients, logs)
    /\ decrypted' = <<>>
    /\ UNCHANGED <<user, page, view_mode, patients, cipherKey, pc, sealed>>

\* patients_page, Add tab: the form is submitted.  With all fields present
\* the run gets as far as add_patient, which commits the new row.
AddPatientSubmit(name, contact, diagnosis, k) ==
    /\ pc = "idle"
    /\ user # NoUser
    /\ page = "Patients"
    /\ CanEdit(user)
    /\ LET viewed == logs \o ViewTabLog(user, view_mode, patients)
       IN  IF FormComplete(name, contact, diagnosis)
           THEN LET cipher == get_cipher(k)
                    anon_name == mask_name(999)
                    anon_contact == mask_contact(contact)
                    enc_name == encrypt(cipher, name)
                    enc_contact == encrypt(cipher, contact)
                IN  /\ Len(patients) < MaxPatients
                    /\ Len(viewed) + 1 + Len(ViewTabLog(user, view_mode, <<1>>))
                          <= MaxLogs
                    /\ cipherKey' = cipher
                    /\ patients' = add_patient(patients, name, contact,
                                               diagnosis, anon_name,
                                               anon_contact, enc_name,
                                               enc_contact)
                    /\ sealed' = Append(sealed, <<name, contact>>)
                    /\ logs' = viewed
                    /\ pc' = "add_inserted"
                    /\ UNCHANGED screen
           ELSE /\ Len(viewed) <= MaxLogs
                /\ logs' = viewed
                /\ screen' = ViewTabScreen(user, view_mode, patients)
                               \cup {"add_form", "all_fields_required"}
                               \cup UpdateTabScreen(user, patients)
                /\ UNCHANGED <<patients, cipherKey, pc, sealed>>
    /\ UNCHANGED <<user, page, view_mode, selected_id, decrypted>>

\* Variant: the second write keeps the pseudonym computed before the insert
AddPatientFinish_KeepsPlaceholder ==
    /\ pc = "add_inserted"
    /\ LET pid == Len(patients)
           row == patients[pid]
       IN  /\ patients' = update_patient(patients, pid, row.name, row.contact,
                                         row.diagnosis, row.anonymized_name,
                                         row.anonymized_contact)
           /\ logs' = log_user_action(logs, user, "ADD_PATIENT")
                        \o ViewTabLog(user, view_mode, patients')
    /\ selected_id' = SelectedAfter(user, page, patients', selected_id)
    /\ screen' = PageScreen(user, page, view_mode, patients', logs')
    /\ pc' = "idle"
    /\ UNCHANGED <<user, page, view_mode, cipherKey, decrypted, sealed>>

\* patients_page, Add tab: the rest of the handler after add_patient has
\* returned pid, and the run that st.rerun() starts
AddPatientFinish ==
    /\ pc = "add_inserted"
    /\ LET pid == Len(patients)
           row == patients[pid]
       IN  /\ patients' = update_patient(patients, pid, row.name, row.contact,
                                         row.diagnosis, mask_name(pid),
                                         row.anonymized_contact)
           /\ logs' = log_user_action(logs, user, "ADD_PATIENT")
                        \o ViewTabLog(user, view_mode, patients')
    /\ selected_id' = SelectedAfter(user, page, patients', selected_id)
    /\ screen' = PageScreen(user, page, view_mode, patients', logs')
    /\ pc' = "idle"
    /\ UNCHANGED <<user, page, view_mode, cipherKey, decrypted, sealed>>

\* Variant: the update also re-encrypts the new name and contact
UpdatePatientSubmit_Reencrypts(name, contact, diagnosis) ==
    /\ pc = "idle"
    /\ user # NoUser
    /\ page = "Patients"
    /\ CanEdit(user)
    /\ patients # <<>>
    /\ cipherKey # 0
    /\ LET anon_name == mask_name(selected_id)
           anon_contact == mask_contact(contact)
           updated == update_patient(patients, selected_id, name, contact,
                                     diagnosis, anon_name, anon_contact)
       IN  patients' =
              [updated EXCEPT
                 ![selected_id].encrypted_name = encrypt(cipherKey, name),
                 ![selected_id].encrypted_contact = encrypt(cipherKey, contact)]
    /\ logs' = log_user_action(logs \o ViewTabLog(user, view_mode, patients),
                               user, "UPDATE_PATIENT")
                 \o ViewTabLog(user, view_mode, patients')
    /\ Len(logs') <= MaxLogs
    /\ screen' = PageScreen(user, page, view_mode, patients', logs')
    /\ UNCHANGED <<user, page, view_mode, selected_id, cipherKey, decrypted,
                   pc, sealed>>

\* patients_page, Update tab: the form is submitted
UpdatePatientSubmit(name, contact, diagnosis) ==
    /\ pc = "idle"
    /\ user # NoUser
    /\ page = "Patients"
    /\ CanEdit(user)
    /\ patients # <<>>
    /\ LET anon_name == mask_name(selected_id)
           anon_contact == mask_contact(contact)
       IN  patients' = update_patient(patients, selected_id, name, contact,
                                      diagnosis, anon_name, anon_contact)
    /\ logs' = log_user_action(logs \o ViewTabLog(user, view_mode, patients),
                               user, "UPDATE_PATIENT")
                 \o ViewTabLog(user, view_mode, patients')
    /\ Len(logs') <= MaxLogs
    /\ screen' = PageScreen(user, page, view_mode, patients', logs')
    /\ UNCHANGED <<user, page, view_mode, selected_id, cipherKey, decrypted,
                   pc, sealed>>

\* Variant: every click builds a cipher from a newly generated key
ApplyAnonymization_FreshKey(k) ==
    /\ pc = "idle"
    /\ page = "Anonymization"
    /\ check_role(user, {"admin"})
    /\ LET cipher == cipherKey + k
       IN  /\ cipherKey' = cipher
           /\ patients' = anonymize_all_patients(patients, cipher)
    /\ sealed' = RawOf(patients)
    /\ logs' = log_user_action(logs, user, "ANONYMIZE_ALL")
    /\ Len(logs') <= MaxLogs
    /\ screen' = PageScreen(user, page, view_mode, patients', logs')
    /\ decrypted' = <<>>
    /\ UNCHANGED <<user, page, view_mode, selected_id, pc>>

\* anonymization_page: "Apply Anonymization" is clicked
ApplyAnonymization(k) ==
    /\ pc = "idle"
    /\ page = "Anonymization"
    /\ check_role(user, {"admin"})
    /\ LET cipher == get_cipher(k)
       IN  /\ cipherKey' = cipher
           /\ patients' = anonymize_all_patients(patients, cipher)
    /\ sealed' = RawOf(patients)
    /\ logs' = log_user_action(logs, user, "ANONYMIZE_ALL")
    /\ Len(logs') <= MaxLogs
    /\ screen' = PageScreen(user, page, view_mode, patients', logs')
    /\ decrypted' = <<>>
    /\ UNCHANGED <<user, page, view_mode, selected_id, pc>>

\* anonymization_page: "Decrypt & View" is clicked
DecryptAndView(k) ==
    /\ pc = "idle"
    /\ page = "Anonymization"
    /\ check_role(user, {"admin"})
    /\ patients # <<>>
    /\ LET patient == patients[selected_id]
           cipher == get_cipher(k)
       IN  /\ cipherKey' = cipher
           /\ IF /\ CanDecrypt(cipher, patient.encrypted_name)
                 /\ CanDecrypt(cipher, patient.encrypted_contact)
              THEN /\ decrypted' =
                         <<decrypt_field(cipher, patient.encrypted_name),
                           decrypt_field(cipher, patient.encrypted_contact)>>
                   /\ screen' = PageScreen(user, page, view_mode, patients, logs)
              ELSE /\ decrypted' = <<>>
                   /\ screen' = PageScreen(user, page, view_mode, patients, logs)
                                   \cup {"decryption_error"}
    /\ logs' = log_user_action(logs, user, "DECRYPT_DATA")
    /\ Len(logs') <= MaxLogs
    /\ UNCHANGED <<user, page, view_mode, selected_id, patients, pc, sealed>>

Next ==
    \/ \E a \in LoginAttempts : LoginSubmit(a[1], a[2])
    \/ \E p \in {"Dashboard", "Patients", "Anonymization", "Audit Logs"} :
          Navigate(p)
    \/ Logout
    \/ \E vm \in {"Anonymized", "Raw Data"} : SetViewMode(vm)
    \/ \E id \in 1..MaxPatients : SelectPatient(id)
    \/ \E f \in ValidForms \cup IncompleteForms, k \in Keys :
          AddPatientSubmit(f.name, f.contact, f.diagnosis, k)
    \/ AddPatientFinish
    \/ \E f \in ValidForms :
          UpdatePatientSubmit(f.name, f.contact, f.diagnosis)
    \/ \E k \in Keys : ApplyAnonymization(k)
    \/ \E k \in Keys : DecryptAndView(k)

Spec == Init /\ [][Next]_vars

----------------------------------------------------------------------------
(* Properties *)

AnonNameIsMaskOfId(r) == r.anonymized_name = mask_name(r.patient_id)

Appended == SubSeq(logs', Len(logs) + 1, Len(logs'))

HasEntry(action) == \E i \in 1..Len(logs) : logs[i].action = action

LastAction == IF logs = <<>> THEN "" ELSE logs[Len(logs)].action

\* C1: in every reachable state of the patient store, the states between
\* the store writes of Add Patient included, every persisted record has
\* anonymized_name = mask_name(patient_id).
C1_NoPlaceholderPersisted ==
    \A i \in 1..Len(patients) : AnonNameIsMaskOfId(patients[i])

\* C2: once the running Add Patient, Update Patient or Anonymize-All action
\* has completed, every persisted record has anonymized_name =
\* mask_name(patient_id), whatever the patient's name is or was.
C2_AnonNameOfIdAfterActions ==
    pc = "idle" =>
        \A i \in 1..Len(patients) : AnonNameIsMaskOfId(patients[i])

C2_Witness ==
    /\ pc = "idle"
    /\ HasEntry("ADD_PATIENT")
    /\ HasEntry("UPDATE_PATIENT")
    /\ LastAction = "ANONYMIZE_ALL"
    /\ \E i \in 1..Len(patients) : patients[i].name = "John"

\* Capability table of the access policy
Permits(role, action) ==
    CASE action \in {"VIEW_RAW_DATA", "ANONYMIZE_ALL", "DECRYPT_DATA",
                     "VIEW_AUDIT_LOG"} -> role = "admin"
      [] action = "VIEW_ANONYMIZED_DATA" -> role \in {"admin", "doctor"}
      [] action \in {"ADD_PATIENT", "UPDATE_PATIENT"} ->
            role \in {"admin", "receptionist"}
      [] OTHER -> TRUE

C4_DoctorEditBlocked ==
    [][(user.role = "doctor" /\ user' = user /\ page' = "Patients") =>
          /\ patients' = patients
          /\ {"doctors_cannot_add", "doctors_cannot_update"} \subseteq screen'
          /\ logs' = logs \o ViewTabLog(user, view_mode', patients)
          /\ \A i \in 1..Len(Appended) :
                Appended[i].action = "VIEW_ANONYMIZED_DATA"]_vars

C4_Witness ==
    /\ user.role = "doctor"
    /\ page = "Patients"
    /\ patients # <<>>
    /\ "doctors_cannot_add" \in screen

\* C5: every listed operation (login, logout, add, update, anonymize-all,
\* decrypt, raw view, anonymized view, audit-log view) performed in a step
\* appends exactly one audit entry of its kind in that step.
ListedActions ==
    {"LOGIN", "LOGOUT", "ADD_PATIENT", "UPDATE_PATIENT", "ANONYMIZE_ALL",
     "DECRYPT_DATA", "VIEW_RAW_DATA", "VIEW_ANONYMIZED_DATA", "VIEW_AUDIT_LOG"}

ListedAppended ==
    Cardinality({i \in 1..Len(Appended) : Appended[i].action \in ListedActions})

Count(b) == IF b THEN 1 ELSE 0

OperationsPerformed ==
      Count(user = NoUser /\ user' # NoUser)
    + Count(user # NoUser /\ user' = NoUser)
    + Count(pc = "add_inserted" /\ pc' = "idle")
    + Count(\E f \in ValidForms :
               UpdatePatientSubmit(f.name, f.contact, f.diagnosis))
    + Count(\E k \in Keys : ApplyAnonymization(k))
    + Count(decrypted' # <<>> /\ \E k \in Keys : DecryptAndView(k))
    + Count(pc' = "idle" /\ "raw_table" \in screen')
    + Count(pc' = "idle" /\ "anon_table" \in screen')
    + Count(pc' = "idle" /\ "audit_log" \in screen')

C5_OneEntryPerOperation ==
    [][ListedAppended = OperationsPerformed]_vars

\* C6: a login submission that is rejected (empty field or no matching
\* credential) leaves the session logged out on the Login page, the patient
\* store unchanged and the audit log unchanged.
RejectedLogin ==
    \E a \in LoginAttempts :
        /\ a[1] = "" \/ a[2] = "" \/ authenticate_user(a[1], a[2]) = NoUser
        /\ LoginSubmit(a[1], a[2])

IncompleteSubmission ==
    \E f \in IncompleteForms, k \in Keys :
        AddPatientSubmit(f.name, f.contact, f.diagnosis, k)

C7_NoEntryOnIncompleteAdd ==
    [][IncompleteSubmission => patients' = patients /\ logs' = logs]_vars

\* C7 amended: an Add Patient submission with a missing field creates or
\* modifies no patient record and appends no ADD_PATIENT entry; the run
\* appends exactly what its View tab logs (a VIEW_RAW_DATA entry when an
\* admin has Raw Data selected and the store is not empty, else nothing).
C7_NoPartialWriteOnIncompleteAdd ==
    [][IncompleteSubmission =>
          /\ patients' = patients
          /\ pc' = "idle"
          /\ "all_fields_required" \in screen'
          /\ \A i \in 1..Len(Appended) : Appended[i].action # "ADD_PATIENT"
          /\ Appended = IF user.role = "admin" /\ view_mode = "Raw Data"
                           /\ patients # <<>>
                        THEN <<Entry(user, "VIEW_RAW_DATA")>>
                        ELSE <<>>]_vars

C7_Witness ==
    /\ "all_fields_required" \in screen
    /\ "raw_table" \in screen
    /\ LastAction = "VIEW_RAW_DATA"
    /\ Len(patients) = 1

C9_SessionPageConsistent ==
    /\ user = NoUser <=> page = "Login"
    /\ (user # NoUser /\ user.role # "admin")
          => page \notin {"Anonymization", "Audit Logs"}

C9_Witness ==
    /\ user.role \in {"doctor", "receptionist"}
    /\ \E i \in 1..(Len(logs) - 1) :
          /\ logs[i].action = "VIEW_AUDIT_LOG"
          /\ logs[i + 1].action = "LOGOUT"

\* C10: Update Patient leaves encrypted_name, encrypted_contact and
\* patient_id of the selected record, and every other record, unchanged;
\* Decrypt & View shows the name and contact the selected patient had at its
\* most recent Add or Anonymize-All.
C10_UpdateKeepsCiphertext ==
    [][/\ (\E f \in ValidForms :
              UpdatePatientSubmit(f.name, f.contact, f.diagnosis)) =>
            /\ Len(patients') = Len(patients)
            /\ \A i \in 1..Len(patients) :
                  /\ patients'[i].encrypted_name = patients[i].encrypted_name
                  /\ patients'[i].encrypted_contact
                        = patients[i].encrypted_contact
                  /\ patients'[i].patient_id = patients[i].patient_id
                  /\ i # selected_id => patients'[i] = patients[i]
       /\ (\E k \in Keys : DecryptAndView(k)) =>
            decrypted' = sealed[selected_id]]_vars

C10_Witness ==
    /\ decrypted # <<>>
    /\ Len(patients) = 2
    /\ HasEntry("UPDATE_PATIENT")
    /\ decrypted[1] # patients[selected_id].name
    /\ decrypted[2] # patients[selected_id].contact

====
